---- MODULE Spec2Model ----
(***************************************************************************)
(* Model of the KubeVirt inventory plugin (plugins/inventory/kubevirt.py)  *)
(* and of the kubevirt_vm module (plugins/modules/kubevirt_vm.py).         *)
(*                                                                         *)
(* Strings are sequences of one-character strings, so that sanitizing,     *)
(* formatting and replacing are computed character by character.           *)
(* A Python value that may be None is a sequence of length 0 (None) or 1   *)
(* (the value): Nil and Some(x).                                           *)
(***************************************************************************)
EXTENDS Integers, Sequences, FiniteSets, TLC

VARIABLES
    pc,           \* position of parse/fetch_objects
    error,        \* the exception that ended the run (Nil: none)
    connections,  \* setup local: config_data.get("connections"), once read
    connection,   \* fetch_objects local: current entry of connections
    host_format,  \* self.host_format (InventoryModule attribute)
    remaining,    \* number of entries of `connections` not yet iterated
    name,         \* fetch_objects local: name of the current connection
    opts,         \* fetch_objects local: GetVmiOptions of the current connection
    namespaces,   \* fetch_objects local: namespaces not yet iterated
    cluster,      \* VMIs the API server holds (per namespace, in list order)
    groups,       \* inventory: set of group names
    hosts,        \* inventory: set of host names
    children,     \* inventory: child edges <<parent, child>>, in insertion order
    hostvars,     \* inventory: host -> (variable name -> value)
    calls,        \* inventory calls made by the latest get_vmis_for_namespace
    hist,         \* history of the projections (arguments, graph before)
    exc,          \* format_dynamic_api_exc: its argument (Nil: not called)
    message,      \* format_dynamic_api_exc: its outcome (Nil: not returned)
    step,         \* kubevirt_vm: position of main/perform_action
    params,       \* kubevirt_vm: module.params (Nil before main)
    check_mode,   \* kubevirt_vm: svc.module.check_mode
    definition,   \* kubevirt_vm: the manifest handed to perform_action
    existing,     \* kubevirt_vm: perform_action local, svc.retrieve(...)
    dry_run,      \* kubevirt_vm: svc.client.dry_run
    svc_calls,    \* kubevirt_vm: the calls made on svc, in order
    result,       \* kubevirt_vm: perform_action local, the result dict
    instance,     \* kubevirt_vm: perform_action local
    raised        \* kubevirt_vm: the exception perform_action raised (Nil: none)

vars == <<pc, error, connections, connection, host_format, remaining, name,
          opts, namespaces, cluster, groups, hosts, children, hostvars, calls,
          hist, exc, message, step, params, check_mode, definition,
          existing, dry_run, svc_calls, result, instance, raised>>

\* The inventory plugin's run.
pluginVars == <<pc, error, connections, connection, host_format, remaining,
                name, opts, namespaces, cluster, groups, hosts, children,
                hostvars, calls, hist>>

\* format_dynamic_api_exc called on its own.
formatVars == <<exc, message>>

\* The kubevirt_vm module's run.
moduleVars == <<step, params, check_mode, definition, existing, dry_run,
                svc_calls, result, instance, raised>>

\* The kubevirt_vm module is not running.
ModuleIdle ==
    /\ step = "idle"
    /\ params = <<>>
    /\ check_mode = FALSE
    /\ definition = <<>>
    /\ existing = <<>>
    /\ dry_run = FALSE
    /\ svc_calls = <<>>
    /\ result = <<>>
    /\ instance = <<>>
    /\ raised = <<>>

\* ------------------------------------------------------------------ bounds

\* Longest VirtualMachineInstance list one fetch returns.
MaxVmis == 2

\* Most entries of the configured connections list.
MaxConnections == 2

\* ----------------------------------------------------------------- strings

Nil == <<>>
Some(x) == <<x>>

Letters ==
    {"a","b","c","d","e","f","g","h","i","j","k","l","m","n","o","p","q","r",
     "s","t","u","v","w","x","y","z"}
Digits == {"0","1","2","3","4","5","6","7","8","9"}

\* \w of Python's re module, over the characters the model uses
WordChars == Letters \cup Digits \cup {"_"}

\* Flatten a sequence of strings into one string.
RECURSIVE Concat(_)
Concat(ss) == IF ss = <<>> THEN <<>> ELSE Head(ss) \o Concat(Tail(ss))

StartsWith(s, pat) ==
    Len(s) >= Len(pat) /\ SubSeq(s, 1, Len(pat)) = pat

\* str.replace(pat, rep): every non-overlapping occurrence, left to right
RECURSIVE Replace(_, _, _)
Replace(s, pat, rep) ==
    IF s = <<>> THEN <<>>
    ELSE IF StartsWith(s, pat)
         THEN rep \o Replace(SubSeq(s, Len(pat) + 1, Len(s)), pat, rep)
         ELSE <<Head(s)>> \o Replace(Tail(s), pat, rep)

\* self._sanitize_group_name (ansible to_safe_group_name): every character
\* matching ^[\d\W]|[^\w] is replaced by "_".
sanitize_group_name(s) ==
    [i \in 1..Len(s) |->
        IF s[i] \notin WordChars \/ (i = 1 /\ s[i] \in Digits)
        THEN "_" ELSE s[i]]

\* InventoryModule.get_default_host_name
get_default_host_name(host) ==
    Replace(
        Replace(
            Replace(
                Replace(host, <<"h","t","t","p","s",":","/","/">>, <<>>),
                <<"h","t","t","p",":","/","/">>, <<>>),
            <<".">>, <<"-">>),
        <<":">>, <<"_">>)

\* ------------------------------------------------------ API object values

\* kubernetes.dynamic ResourceField: an ordered mapping of key/value pairs
ResourceField(pairs) == [kind |-> "ResourceField", items |-> pairs]
\* a Python list inside an API object
List(items) == [kind |-> "list", items |-> items]
\* a scalar inside an API object
Scalar(x) == [kind |-> "scalar", items |-> x]
\* a Python dict (result of the decoding): key -> value
Dict(f) == [kind |-> "dict", items |-> f]

EmptyDict == Dict(<<>>)
EmptyList == List(<<>>)

Keys(pairs) == {pairs[i][1] : i \in 1..Len(pairs)}
Max(S) == CHOOSE x \in S : \A y \in S : y <= x
Min(S) == CHOOSE x \in S : \A y \in S : x <= y

\* InventoryModule.__resource_field_to_dict
RECURSIVE resource_field_to_dict(_)
resource_field_to_dict(field) ==
    IF field.kind = "ResourceField"
    THEN Dict([k \in Keys(field.items) |->
             LET i == Max({j \in 1..Len(field.items) : field.items[j][1] = k})
             IN  resource_field_to_dict(field.items[i][2])])
    ELSE IF field.kind = "list"
    THEN List([i \in 1..Len(field.items) |-> resource_field_to_dict(field.items[i])])
    ELSE field

\* ------------------------------------------------------------ GetVmiOptions

KubevirtV1 == <<"k","u","b","e","v","i","r","t",".","i","o","/","v","1">>
DefaultHostFormat == <<"{namespace}", "-", "{name}">>

\* GetVmiOptions(...) with its __post_init__
GetVmiOptions(api_version, label_selector, network_name, kube_secondary_dns, base_domain, hf) ==
    [api_version        |-> IF api_version = Nil THEN Some(KubevirtV1) ELSE api_version,
     label_selector     |-> label_selector,
     network_name       |-> network_name,
     kube_secondary_dns |-> kube_secondary_dns,
     base_domain        |-> base_domain,
     host_format        |-> IF hf = Nil THEN Some(DefaultHostFormat) ELSE hf]

\* ------------------------------------------- get_vmis_for_namespace, per VMI

\* str.format(namespace=, name=, uid=) of a format given as a sequence of
\* tokens: a replacement field or a literal character
Format(fmt, namespace, vmname, uid) ==
    Concat([i \in 1..Len(fmt) |->
        CASE fmt[i] = "{namespace}" -> namespace
          [] fmt[i] = "{name}"      -> vmname
          [] fmt[i] = "{uid}"       -> uid
          [] OTHER                  -> <<fmt[i]>>])

\* line 380: vmi.status and vmi.status.interfaces
HasInterfaces(vmi) ==
    /\ vmi.status # Nil
    /\ vmi.status[1].interfaces # Nil
    /\ vmi.status[1].interfaces[1] # <<>>

\* Faulty variant of SelectInterface: the network name is ignored.
SelectFirstInterface(interfaces, network_name) == Some(interfaces[1])

\* lines 384-390: the interface the address is taken from, Nil when not found
SelectInterface(interfaces, network_name) ==
    IF network_name = Nil
    THEN Some(interfaces[1])
    ELSE LET found == {i \in 1..Len(interfaces) : interfaces[i].name = network_name[1]}
         IN  IF found = {} THEN Nil ELSE Some(interfaces[Min(found)])

\* lines 380-381 and 393-394: the two `continue`s of the loop
Skipped(vmi, o) ==
    \/ ~HasInterfaces(vmi)
    \/ LET interface == SelectInterface(vmi.status[1].interfaces[1], o.network_name)
       IN  interface = Nil \/ interface[1].ipAddress = Nil

\* lines 396-400
VmiName(vmi, o) ==
    Format(o.host_format[1], vmi.metadata.namespace, vmi.metadata.name,
           vmi.metadata.uid)

\* line 411-412: the group of one label
LabelGroup(key, value) ==
    sanitize_group_name(<<"l","a","b","e","l","_">> \o key \o <<"_">> \o value)

\* Faulty variant of AppendNew: the group is appended even when already recorded.
AppendAlways(vmi_groups, group_name) == Append(vmi_groups, group_name)

\* lines 413-414
AppendNew(vmi_groups, group_name) ==
    IF \E i \in 1..Len(vmi_groups) : vmi_groups[i] = group_name
    THEN vmi_groups
    ELSE Append(vmi_groups, group_name)

\* lines 401, 410-414: vmi_groups after the first n labels
RECURSIVE VmiGroups(_, _)
VmiGroups(pairs, n) ==
    IF n = 0 THEN <<>>
    ELSE AppendNew(VmiGroups(pairs, n - 1),
                   LabelGroup(pairs[n][1], pairs[n][2].items))

Dot == <<".">>

\* lines 431-436
AnsibleHost(vmi, o, interface) ==
    IF o.kube_secondary_dns /\ o.network_name # Nil
    THEN o.network_name[1] \o Dot \o vmi.metadata.name \o Dot
         \o vmi.metadata.namespace \o Dot \o <<"v","m">>
         \o (IF o.base_domain # Nil THEN Dot \o o.base_domain[1] ELSE <<>>)
    ELSE interface.ipAddress[1]

\* `X if field else default` for a ResourceField: truthy whenever present
DictOr(opt) == IF opt = Nil THEN EmptyDict ELSE resource_field_to_dict(opt[1])
\* the same for a list: truthy when present and not empty
ListOr(opt) ==
    IF opt = Nil \/ opt[1].items = <<>> THEN EmptyList
    ELSE List([i \in 1..Len(opt[1].items) |-> resource_field_to_dict(opt[1].items[i])])

\* One entry of status.interfaces as the ResourceField the API client
\* returns: a field the API does not report is no key of it.
InterfaceField(interface) ==
    ResourceField(<< <<"name", Scalar(interface.name)>> >>
                  \o (IF interface.ipAddress = Nil THEN <<>>
                      ELSE << <<"ipAddress", Scalar(interface.ipAddress[1])>> >>))

\* lines 427-517: the variables set for an included VMI, in call order
HostVariables(vmi, o, interface) ==
    LET m == vmi.metadata
        s == vmi.status[1]
    IN  << <<"ansible_connection", <<"s","s","h">> >>,
           <<"ansible_host", AnsibleHost(vmi, o, interface)>>,
           <<"object_type", <<"v","m","i">> >>,
           <<"labels", DictOr(m.labels)>>,
           <<"annotations", DictOr(m.annotations)>>,
           <<"cluster_name", m.clusterName>>,
           <<"resource_version", m.resourceVersion>>,
           <<"uid", m.uid>>,
           <<"vmi_active_pods", DictOr(s.activePods)>>,
           <<"vmi_conditions", ListOr(s.conditions)>>,
           <<"vmi_guest_os_info", DictOr(s.guestOSInfo)>>,
           <<"vmi_interfaces", ListOr(Some(List(
                [i \in 1..Len(s.interfaces[1]) |->
                    InterfaceField(s.interfaces[1][i])])))>>,
           <<"vmi_launcher_container_image_version", s.launcherContainerImageVersion>>,
           <<"vmi_migration_method", s.migrationMethod>>,
           <<"vmi_migration_transport", s.migrationTransport>>,
           <<"vmi_node_name", s.nodeName>>,
           <<"vmi_phase", s.phase>>,
           <<"vmi_phase_transition_timestamps", ListOr(s.phaseTransitionTimestamps)>>,
           <<"vmi_qos_class", s.qosClass>>,
           <<"vmi_virtual_machine_revision_name", s.virtualMachineRevisionName>>,
           <<"vmi_volume_status", ListOr(s.volumeStatus)>> >>

\* An inventory call; vmi is the index of the list entry the call was made
\* for (0: made before the loop).
Call(op, args, i) == [op |-> op, args |-> args, vmi |-> i]

\* the variables whose value is copied from a scalar field of the VMI
ScalarVariables ==
    {"cluster_name", "resource_version", "vmi_launcher_container_image_version",
     "vmi_migration_method", "vmi_migration_transport", "vmi_node_name",
     "vmi_phase", "vmi_qos_class", "vmi_virtual_machine_revision_name"}

\* Faulty variant of SetVariableCalls: a variable is set only when the VMI reports
\* the field it is copied from.
SetVariableCallsReported(vmi_name, hv, i) ==
    LET set == SelectSeq(hv, LAMBDA p : ~(p[1] \in ScalarVariables /\ p[2] = Nil))
    IN  [j \in 1..Len(set) |->
            Call("set_variable", <<vmi_name, set[j][1], set[j][2]>>, i)]

\* lines 427-517: one set_variable call for every variable
SetVariableCalls(vmi_name, hv, i) ==
    [j \in 1..Len(hv) |->
        Call("set_variable", <<vmi_name, hv[j][1], hv[j][2]>>, i)]

\* lines 408-415: add_group for the group of every label
LabelGroupCalls(vmi, i) ==
    LET pairs == IF vmi.metadata.labels = Nil THEN <<>>
                 ELSE vmi.metadata.labels[1].items
    IN  [j \in 1..Len(pairs) |->
            Call("add_group", <<LabelGroup(pairs[j][1], pairs[j][2].items)>>, i)]

\* lines 396-517: the inventory calls for a VMI that is not skipped
IncludedCalls(vmi, i, namespace_vmis_group, o) ==
    LET interface  == SelectInterface(vmi.status[1].interfaces[1], o.network_name)[1]
        vmi_name   == VmiName(vmi, o)
        pairs      == IF vmi.metadata.labels = Nil THEN <<>>
                      ELSE vmi.metadata.labels[1].items
        vmi_groups == VmiGroups(pairs, Len(pairs))
        hv         == HostVariables(vmi, o, interface)
    IN  LabelGroupCalls(vmi, i)
        \o << Call("add_host", <<vmi_name>>, i),
              Call("add_child", <<namespace_vmis_group, vmi_name>>, i) >>
        \o [j \in 1..Len(vmi_groups) |->
            Call("add_child", <<vmi_groups[j], vmi_name>>, i)]
        \o SetVariableCalls(vmi_name, hv, i)

\* Faulty variant of VmiCalls: the label groups are created before the VMI is
\* checked for interfaces.
VmiCallsLabelsFirst(vmi, i, namespace_vmis_group, o) ==
    IF ~HasInterfaces(vmi) THEN LabelGroupCalls(vmi, i)
    ELSE IF Skipped(vmi, o) THEN <<>>
    ELSE IncludedCalls(vmi, i, namespace_vmis_group, o)

\* lines 379-517: the inventory calls of one loop iteration
VmiCalls(vmi, i, namespace_vmis_group, o) ==
    IF Skipped(vmi, o) THEN <<>>
    ELSE IncludedCalls(vmi, i, namespace_vmis_group, o)

NamespacePrefix == <<"n","a","m","e","s","p","a","c","e","_">>
VmisSuffix == <<"_","v","m","i","s">>

\* Faulty variant of ProjectionCalls: the groups of the namespace are created only
\* once a VMI of the list is included.
ProjectionCallsLazyGroups(conn_name, namespace, vmi_list, o) ==
    LET namespace_group      == sanitize_group_name(NamespacePrefix \o namespace)
        namespace_vmis_group == sanitize_group_name(NamespacePrefix \o namespace \o VmisSuffix)
        group                == sanitize_group_name(conn_name)
        rest == Concat([i \in 1..Len(vmi_list) |->
                           VmiCalls(vmi_list[i], i, namespace_vmis_group, o)])
    IN  IF rest = <<>> THEN << Call("add_group", <<group>>, 0) >>
        ELSE << Call("add_group", <<group>>, 0),
                Call("add_group", <<namespace_group>>, 0),
                Call("add_child", <<group, namespace_group>>, 0),
                Call("add_group", <<namespace_vmis_group>>, 0),
                Call("add_child", <<namespace_group, namespace_vmis_group>>, 0) >>
             \o rest

\* Faulty variant of ProjectionCalls: the name of the connection is used as it is
\* given (line 369 is missing).
ProjectionCallsRawName(conn_name, namespace, vmi_list, o) ==
    LET namespace_group      == sanitize_group_name(NamespacePrefix \o namespace)
        namespace_vmis_group == sanitize_group_name(NamespacePrefix \o namespace \o VmisSuffix)
        group                == conn_name
    IN  << Call("add_group", <<group>>, 0),
           Call("add_group", <<namespace_group>>, 0),
           Call("add_child", <<group, namespace_group>>, 0),
           Call("add_group", <<namespace_vmis_group>>, 0),
           Call("add_child", <<namespace_group, namespace_vmis_group>>, 0) >>
        \o Concat([i \in 1..Len(vmi_list) |->
                     VmiCalls(vmi_list[i], i, namespace_vmis_group, o)])

\* lines 366-517: every inventory call of get_vmis_for_namespace, in order,
\* once the VMI list was fetched
ProjectionCalls(conn_name, namespace, vmi_list, o) ==
    LET namespace_group      == sanitize_group_name(NamespacePrefix \o namespace)
        namespace_vmis_group == sanitize_group_name(NamespacePrefix \o namespace \o VmisSuffix)
        group                == sanitize_group_name(conn_name)
    IN  << Call("add_group", <<group>>, 0),
           Call("add_group", <<namespace_group>>, 0),
           Call("add_child", <<group, namespace_group>>, 0),
           Call("add_group", <<namespace_vmis_group>>, 0),
           Call("add_child", <<namespace_group, namespace_vmis_group>>, 0) >>
        \o Concat([i \in 1..Len(vmi_list) |->
                     VmiCalls(vmi_list[i], i, namespace_vmis_group, o)])

\* ------------------------------------------------- the inventory (the sink)

Inventory == [groups |-> groups, hosts |-> hosts, children |-> children,
              hostvars |-> hostvars]

EmptyInventory == [groups |-> {}, hosts |-> {}, children |-> <<>>, hostvars |-> <<>>]

HasEdge(ch, parent, child) == \E i \in 1..Len(ch) : ch[i] = <<parent, child>>

\* Faulty variant of add_child: the edge is appended again when it exists.
add_child_again(inv, parent, child) ==
    [inv EXCEPT !.children = Append(@, <<parent, child>>)]

\* self.inventory.add_child: a child already there is not added again
add_child(inv, parent, child) ==
    IF HasEdge(inv.children, parent, child) THEN inv
    ELSE [inv EXCEPT !.children = Append(@, <<parent, child>>)]

\* self.inventory.add_group
add_group(inv, group) == [inv EXCEPT !.groups = @ \cup {group}]

\* self.inventory.add_host: a new host starts without variables
add_host(inv, host) ==
    IF host \in inv.hosts THEN inv
    ELSE [inv EXCEPT !.hosts = @ \cup {host},
                     !.hostvars = (host :> <<>>) @@ @]

\* self.inventory.set_variable
set_variable(inv, host, key, value) ==
    [inv EXCEPT !.hostvars[host] = (key :> value) @@ @]

ApplyCall(inv, c) ==
    CASE c.op = "add_group"    -> add_group(inv, c.args[1])
      [] c.op = "add_host"     -> add_host(inv, c.args[1])
      [] c.op = "add_child"    -> add_child(inv, c.args[1], c.args[2])
      [] c.op = "set_variable" -> set_variable(inv, c.args[1], c.args[2], c.args[3])

\* The one element of a singleton set: its value is computed before it is used.
Value(S) == CHOOSE r \in S : TRUE

\* the inventory after the calls cs[lo..hi], applied in order; the range is
\* halved and each half is computed before the next starts, which keeps the
\* evaluation shallow
RECURSIVE ApplyRange(_, _, _, _)
ApplyRange(inv, cs, lo, hi) ==
    IF lo > hi THEN inv
    ELSE IF lo = hi THEN ApplyCall(inv, cs[lo])
    ELSE LET mid == (lo + hi) \div 2
         IN  Value({ ApplyRange(left, cs, mid + 1, hi) :
                     left \in {ApplyRange(inv, cs, lo, mid)} })

ApplyCalls(inv, cs) ==
    Value({ ApplyRange(i, s, 1, Len(s)) : i \in {inv}, s \in {cs} })

\* ------------------------------------------------------------------ inputs

default == <<"d","e","f","a","u","l","t">>
ns1     == <<"n","s","-","1">>
testvm  == <<"t","e","s","t","v","m">>
vm1     == <<"v","m","1">>
vm2     == <<"v","m","2">>
vm3     == <<"v","m","3">>
eth0    == <<"e","t","h","0">>
eth1    == <<"e","t","h","1">>
ip1     == <<"1","0",".","0",".","0",".","1">>
ip2     == <<"1","0",".","0",".","0",".","2">>
exampleCom == <<"e","x","a","m","p","l","e",".","c","o","m">>
cluster1 == <<"c","-","1">>

Interface(ifname, ipAddress) == [name |-> ifname, ipAddress |-> ipAddress]

\* metadata.labels values
LabelsAppTier ==
    Some(ResourceField(<< << <<"a","p","p">>, Scalar(<<"x">>) >>,
                          << <<"t","i","e","r">>, Scalar(<<"y">>) >> >>))
LabelsTierApp ==
    Some(ResourceField(<< << <<"t","i","e","r">>, Scalar(<<"y">>) >>,
                          << <<"a","p","p">>, Scalar(<<"x">>) >> >>))
\* two labels whose groups sanitize to the same name, label_a_b_c
LabelsSameGroup ==
    Some(ResourceField(<< << <<"a",".","b">>, Scalar(<<"c">>) >>,
                          << <<"a","_","b">>, Scalar(<<"c">>) >> >>))

\* a status that reports the interfaces and nothing else
BareStatus(interfaces) ==
    Some([interfaces |-> interfaces, activePods |-> Nil, conditions |-> Nil,
          guestOSInfo |-> Nil, launcherContainerImageVersion |-> Nil,
          migrationMethod |-> Nil, migrationTransport |-> Nil, nodeName |-> Nil,
          phase |-> Nil, phaseTransitionTimestamps |-> Nil, qosClass |-> Nil,
          virtualMachineRevisionName |-> Nil, volumeStatus |-> Nil])

\* a status that reports every field the plugin reads
FullStatus(interfaces) ==
    Some([interfaces |-> interfaces,
          activePods |-> Some(ResourceField(<< <<"pod-uid", Scalar("node01")>> >>)),
          conditions |-> Some(List(<< ResourceField(<< <<"type", Scalar("Ready")>>,
                                                       <<"status", Scalar("True")>> >>) >>)),
          guestOSInfo |-> Some(ResourceField(<< <<"id", Scalar("fedora")>> >>)),
          launcherContainerImageVersion |-> Some("virt-launcher:v1"),
          migrationMethod |-> Some("BlockMigration"),
          migrationTransport |-> Some("Unix"),
          nodeName |-> Some("node01"),
          phase |-> Some("Running"),
          phaseTransitionTimestamps |-> Some(List(<< ResourceField(
                                            << <<"phase", Scalar("Running")>> >>) >>)),
          qosClass |-> Some("Burstable"),
          virtualMachineRevisionName |-> Some("revision-1"),
          volumeStatus |-> Some(List(<< ResourceField(
                                            << <<"name", Scalar("disk0")>> >>) >>))])

\* A VirtualMachineInstance as the API holds it; the namespace is the one it
\* is listed in.
Vmi(vmname, uid, labels, annotations, status) ==
    [metadata |-> [namespace |-> Nil, name |-> vmname, uid |-> uid,
                   labels |-> labels, annotations |-> annotations,
                   clusterName |-> Nil, resourceVersion |-> Some(uid)],
     status |-> status]

Annotated == Some(ResourceField(<< <<"owner", Scalar("qa")>> >>))

\* The VMIs a namespace can hold: every way status.interfaces is reported.
SelectPool ==
    << Vmi(testvm, <<"1">>, LabelsAppTier, Nil, Nil),
       Vmi(testvm, <<"2">>, LabelsAppTier, Nil,
           FullStatus(Some(<< Interface(eth0, Some(ip1)), Interface(eth1, Some(ip2)) >>))),
       Vmi(vm1, <<"3">>, LabelsSameGroup, Annotated, BareStatus(Nil)),
       Vmi(vm1, <<"4">>, Nil, Nil,
           BareStatus(Some(<< Interface(eth0, Nil), Interface(eth1, Some(ip1)) >>))),
       Vmi(vm2, <<"5">>, LabelsTierApp, Nil, BareStatus(Some(<<>>))),
       Vmi(vm2, <<"6">>, LabelsSameGroup, Nil,
           BareStatus(Some(<< Interface(eth1, Some(<<>>)), Interface(eth1, Some(ip2)) >>))),
       Vmi(vm3, <<"7">>, LabelsTierApp, Annotated,
           BareStatus(Some(<< Interface(eth1, Nil), Interface(eth0, Some(ip2)) >>))),
       Vmi(vm3, <<"8">>, Nil, Nil,
           BareStatus(Some(<< Interface(eth0, Some(ip1)), Interface(eth1, Nil),
                              Interface(eth1, Some(ip2)) >>))) >>

\* The VMIs a namespace can hold: every way the labels are reported, with a
\* VMI that was deleted and created again under its name.
GraphPool ==
    << Vmi(testvm, <<"1">>, LabelsAppTier, Nil,
           FullStatus(Some(<< Interface(eth0, Some(ip1)) >>))),
       Vmi(testvm, <<"2">>, LabelsSameGroup, Annotated,
           BareStatus(Some(<< Interface(eth0, Some(ip2)) >>))),
       Vmi(vm1, <<"3">>, LabelsTierApp, Nil,
           BareStatus(Some(<< Interface(eth0, Some(ip1)), Interface(eth1, Some(ip2)) >>))),
       Vmi(vm1, <<"4">>, LabelsAppTier, Nil, BareStatus(Some(<<>>))),
       Vmi(vm2, <<"5">>, Nil, Nil,
           BareStatus(Some(<< Interface(eth0, Some(ip2)) >>))),
       Vmi(vm3, <<"6">>, LabelsSameGroup, Nil, Nil) >>

\* The VMIs a namespace holds in the runs of the whole plugin.
DriverPool ==
    << Vmi(testvm, <<"1">>, LabelsAppTier, Nil,
           BareStatus(Some(<< Interface(eth0, Some(ip1)), Interface(eth1, Some(ip2)) >>))),
       Vmi(vm1, <<"3">>, Nil, Nil, BareStatus(Nil)) >>

\* the entries of s at the indices I, in order
RECURSIVE Pick(_, _)
Pick(s, I) ==
    IF I = {} THEN <<>>
    ELSE Pick(s, I \ {Max(I)}) \o <<s[Max(I)]>>

\* vmi_client.get(namespace=...).items: at most MaxVmis of the VMIs the
\* cluster holds, in the order the API lists them, no two of one name, each
\* with the namespace it was listed in
VmiLists(namespace) ==
    { [i \in 1..Cardinality(I) |->
          [Pick(cluster, I)[i] EXCEPT !.metadata.namespace = namespace]] :
      I \in { J \in SUBSET (1..Len(cluster)) :
                /\ Cardinality(J) <= MaxVmis
                /\ \A a, b \in J :
                     a # b => cluster[a].metadata.name # cluster[b].metadata.name } }

\* ------------------------------------------------------------- configuration

apiHost == <<"h","t","t","p","s",":","/","/","k","8","s",".","i","o",":","6","4","4","3">>
v1alpha3 == <<"k","u","b","e","v","i","r","t",".","i","o","/","v","1","a","l","p","h","a","3">>

\* config_data.get("host_format"): absent, empty, or a format
HostFormats == {Nil, Some(<<>>), Some(<<"{name}", ".", "{uid}">>)}

\* config_data.get("connections"): absent, an empty list, an empty mapping,
\* a string, or a list of 1..MaxConnections entries
ConnectionsValues ==
    {[kind |-> k, len |-> 0] : k \in {"none", "empty_list", "empty_dict", "string"}}
    \cup {[kind |-> "list", len |-> n] : n \in 1..MaxConnections}

\* bool(connections)
Truthy(value) == value.kind \in {"string", "list"}

Connection(conn_name, conn_namespaces, api_version, network_name, interface_name, kube_secondary_dns) ==
    [kind |-> "dict", name |-> conn_name, namespaces |-> conn_namespaces,
     api_version |-> api_version, label_selector |-> Nil,
     network_name |-> network_name, interface_name |-> interface_name,
     kube_secondary_dns |-> kube_secondary_dns]

\* An entry of the connections list: a key that is not given is Nil.
ConnectionEntries ==
    { [kind |-> "string"],
      Connection(Nil, Nil, Nil, Nil, Nil, Nil),
      Connection(Some(cluster1), Some(<<default>>), Nil, Nil, Nil, Nil),
      Connection(Some(cluster1), Some(<<>>), Some(<<>>), Nil, Some(eth1), Nil),
      Connection(Nil, Some(<<default, default>>), Some(v1alpha3), Some(eth1), Nil, Some(TRUE)),
      Connection(Some(cluster1), Nil, Some(<<>>), Some(eth1), Some(eth0), Some(FALSE)) }

\* v1_namespace.get().items: the namespaces the credentials can list
ApiNamespaces == {<<default, ns1>>}

\* get_cluster_domain: None after a DynamicApiError, else spec.baseDomain
ClusterDomains == {Nil, Some(exampleCom)}

\* dict.get(key, default) for a key that is given (Some) or not (Nil)
Get(value, dflt) == IF value = Nil THEN dflt ELSE value

\* The KubeVirtInventoryException raised, by the start of its message.
ClientMissing == "This module requires the Kubernetes Python client."
ExpectingList == "Expecting connections to be a list."
ExpectingDictionary == "Expecting connection to be a dictionary."
ErrorFetchingNamespaceList == "Error fetching Namespace list"
ErrorFetchingVmiList == "Error fetching VirtualMachineInstance list"

\* -------------------------------------------------------------- the history

NoHistory ==
    [before |-> EmptyInventory, args |-> Nil, twice |-> FALSE,
     writer |-> <<>>, overwritten |-> {}, projections |-> 0]

\* For every host the VMI and options it was last written from, after the
\* first n entries of vmi_list; overwritten: the hosts written from two
\* different VMIs.
RECURSIVE Writers(_, _, _, _)
Writers(h, vmi_list, o, n) ==
    IF n = 0 THEN h
    ELSE LET prev == Writers(h, vmi_list, o, n - 1)
             vmi  == vmi_list[n]
             key  == VmiName(vmi, o)
         IN  IF Skipped(vmi, o) THEN prev
             ELSE [prev EXCEPT
                     !.overwritten =
                        IF key \in DOMAIN prev.writer /\ prev.writer[key][1] # vmi
                        THEN @ \cup {key} ELSE @,
                     !.writer = (key :> <<vmi, o>>) @@ @]

\* ---------------------------------------------------------------- actions

\* The loop at lines 309-310 / 316-317 is over; back in the loop over the
\* connections, or done.
AfterNamespaces(rest, left) ==
    IF rest # <<>> THEN "namespaces"
    ELSE IF left > 0 THEN "connections" ELSE "done"

\* Faulty variant of VmiListFailed: the groups of the namespace are created
\* before the list is fetched.
VmiListFailedAfterGroups(namespace) ==
    LET inv == ApplyCalls(Inventory, ProjectionCalls(name, namespace, <<>>, opts))
    IN  /\ pc' = "failed"
        /\ error' = Some(ErrorFetchingVmiList)
        /\ calls' = <<>>
        /\ groups' = inv.groups
        /\ children' = inv.children
        /\ UNCHANGED <<connections, connection, host_format, remaining, name,
                       opts, namespaces, cluster, hosts, hostvars, hist>>

\* Lines 356-364: vmi_client.get raises DynamicApiError, which is raised again
\* as KubeVirtInventoryException.
VmiListFailed(namespace) ==
    /\ pc' = "failed"
    /\ error' = Some(ErrorFetchingVmiList)
    /\ calls' = <<>>
    /\ UNCHANGED <<connections, connection, host_format, remaining, name,
                   opts, namespaces, cluster, groups, hosts, children,
                   hostvars, hist>>

\* get_vmis_for_namespace(client, name, namespace, opts) for the next
\* namespace of the current connection
GetVmisForNamespace ==
    /\ pc = "namespaces"
    /\ namespaces # <<>>
    /\ UNCHANGED <<formatVars, moduleVars>>
    /\ LET namespace == Head(namespaces) IN
       \/ VmiListFailed(namespace)
       \/ \E vmi_list \in VmiLists(namespace) :
            LET cs   == ProjectionCalls(name, namespace, vmi_list, opts)
                inv  == ApplyCalls(Inventory, cs)
                args == <<name, namespace, vmi_list, opts>>
                w    == Writers(hist, vmi_list, opts, Len(vmi_list))
            IN  /\ calls' = cs
                /\ groups' = inv.groups
                /\ hosts' = inv.hosts
                /\ children' = inv.children
                /\ hostvars' = inv.hostvars
                /\ hist' = [w EXCEPT !.before = Inventory,
                                     !.twice = (hist.args = Some(args)),
                                     !.args = Some(args),
                                     !.projections = @ + 1]
                /\ namespaces' = Tail(namespaces)
                /\ pc' = AfterNamespaces(Tail(namespaces), remaining)
                /\ UNCHANGED <<error, connections, connection, host_format,
                               remaining, name, opts, cluster>>

\* parse, setup and fetch_objects up to its loops (lines 245-286, 311-315)
Parse ==
    /\ pc = "parse"
    /\ UNCHANGED <<formatVars, moduleVars>>
    /\ \E hf \in HostFormats, value \in ConnectionsValues :
         /\ host_format' = hf
         /\ connections' = Some(value)
         /\ \/ \* lines 263-267: the Kubernetes client is missing
               /\ pc' = "failed"
               /\ error' = Some(ClientMissing)
               /\ UNCHANGED <<remaining, name, opts, namespaces>>
            \/ \* lines 270-276: the cache holds the source data
               /\ pc' = "cached"
               /\ UNCHANGED <<error, remaining, name, opts, namespaces>>
            \/ \* lines 284-285
               /\ Truthy(value) /\ value.kind # "list"
               /\ pc' = "failed"
               /\ error' = Some(ExpectingList)
               /\ UNCHANGED <<remaining, name, opts, namespaces>>
            \/ \* line 287
               /\ Truthy(value) /\ value.kind = "list"
               /\ remaining' = value.len
               /\ pc' = "connections"
               /\ UNCHANGED <<error, name, opts, namespaces>>
            \/ \* lines 312-314, get_available_namespaces raises
               /\ ~Truthy(value)
               /\ pc' = "failed"
               /\ error' = Some(ErrorFetchingNamespaceList)
               /\ name' = get_default_host_name(apiHost)
               /\ UNCHANGED <<remaining, opts, namespaces>>
            \/ \* lines 312-315
               /\ ~Truthy(value)
               /\ \E available \in ApiNamespaces :
                    /\ name' = get_default_host_name(apiHost)
                    /\ namespaces' = available
                    /\ opts' = GetVmiOptions(Nil, Nil, Nil, FALSE, Nil, hf)
                    /\ pc' = AfterNamespaces(available, 0)
                    /\ UNCHANGED <<error, remaining>>
    /\ UNCHANGED <<connection, cluster, groups, hosts, children, hostvars,
                   calls, hist>>

\* One entry of the connections list, up to its loop over the namespaces
\* (lines 287-308)
NextConnection ==
    /\ pc = "connections"
    /\ remaining > 0
    /\ UNCHANGED <<formatVars, moduleVars>>
    /\ \E entry \in ConnectionEntries :
         /\ connection' = Some(entry)
         /\ \/ \* lines 288-291
               /\ entry.kind # "dict"
               /\ pc' = "failed"
               /\ error' = Some(ExpectingDictionary)
               /\ UNCHANGED <<remaining, name, opts, namespaces>>
            \/ \* line 299, get_available_namespaces raises
               /\ entry.kind = "dict"
               /\ entry.namespaces \in {Nil, Some(<<>>)}
               /\ pc' = "failed"
               /\ error' = Some(ErrorFetchingNamespaceList)
               /\ name' = Get(entry.name, Some(get_default_host_name(apiHost)))[1]
               /\ UNCHANGED <<remaining, opts, namespaces>>
            \/ /\ entry.kind = "dict"
               /\ \E available \in ApiNamespaces, base_domain \in ClusterDomains :
                    LET nss == IF entry.namespaces \in {Nil, Some(<<>>)}
                               THEN available ELSE entry.namespaces[1]
                    IN  /\ name' = Get(entry.name, Some(get_default_host_name(apiHost)))[1]
                        /\ namespaces' = nss
                        /\ opts' = GetVmiOptions(
                                       entry.api_version,
                                       entry.label_selector,
                                       Get(entry.network_name, entry.interface_name),
                                       Get(entry.kube_secondary_dns, Some(FALSE))[1],
                                       base_domain,
                                       host_format)
                        /\ remaining' = remaining - 1
                        /\ pc' = AfterNamespaces(nss, remaining - 1)
                        /\ UNCHANGED error
    /\ UNCHANGED <<connections, host_format, cluster, groups, hosts, children,
                   hostvars, calls, hist>>

\* ----------------------------------------------------------- specifications

NetworkNames == {Nil, Some(eth1)}
BaseDomains == {Nil, Some(<<>>), Some(exampleCom)}

Fresh ==
    /\ exc = Nil /\ message = Nil
    /\ ModuleIdle
    /\ error = Nil
    /\ connection = Nil
    /\ remaining = 0
    /\ groups = {} /\ hosts = {} /\ children = <<>> /\ hostvars = <<>>
    /\ calls = <<>>
    /\ hist = NoHistory

\* One namespace of one connection, under every option.
InitSelect ==
    /\ pc = "namespaces"
    /\ host_format \in {Nil, Some(<<"{uid}">>)}
    /\ name = cluster1
    /\ \E network_name \in NetworkNames, kube_secondary_dns \in BOOLEAN,
          base_domain \in BaseDomains :
         opts = GetVmiOptions(Nil, Nil, network_name, kube_secondary_dns,
                              base_domain, host_format)
    /\ namespaces \in {<<ns1>>}
    /\ connections = Some([kind |-> "list", len |-> 1])
    /\ cluster = SelectPool
    /\ Fresh

\* Two namespaces of one connection, a namespace possibly listed twice.
InitGraph ==
    /\ pc = "namespaces"
    /\ host_format \in {Nil, Some(<<"{namespace}">>)}
    /\ name = cluster1
    /\ opts = GetVmiOptions(Nil, Nil, Nil, FALSE, Nil, host_format)
    /\ namespaces \in {<<default, default>>, <<default, ns1>>}
    /\ connections = Some([kind |-> "list", len |-> 1])
    /\ cluster = GraphPool
    /\ Fresh

\* The projection: get_vmis_for_namespace called as fetch_objects calls it.
Init == InitSelect \/ InitGraph

Next == GetVmisForNamespace

Spec == Init /\ [][Next]_vars

\* The plugin as a whole: parse, then fetch_objects over the connections.
InitDriver ==
    /\ pc = "parse"
    /\ host_format = Nil
    /\ name = <<>>
    /\ opts = GetVmiOptions(Nil, Nil, Nil, FALSE, Nil, Nil)
    /\ namespaces = <<>>
    /\ connections = Nil
    /\ cluster = DriverPool
    /\ Fresh

NextDriver == Parse \/ NextConnection \/ GetVmisForNamespace

SpecDriver == InitDriver /\ [][NextDriver]_vars

\* ------------------------------------------------------------------ claims

\* The latest get_vmis_for_namespace call fetched its list and made its calls.
Projected == calls # <<>>
LastName == hist.args[1][1]
LastNamespace == hist.args[1][2]
LastList == hist.args[1][3]
LastOpts == hist.args[1][4]

\* the calls the latest projection made for entry i of its list
CallsOf(i) == {j \in 1..Len(calls) : calls[j].vmi = i}

NoInterfaces(vmi) ==
    \/ vmi.status = Nil
    \/ vmi.status[1].interfaces = Nil
    \/ vmi.status[1].interfaces[1] = <<>>

\* index of the interface the claims select: the first one without a network
\* name, else the first one of that name; 0 when there is none
SelectedIndex(vmi, o) ==
    LET ifs == vmi.status[1].interfaces[1]
    IN  IF o.network_name = Nil THEN 1
        ELSE IF \E k \in 1..Len(ifs) : ifs[k].name = o.network_name[1]
             THEN Min({k \in 1..Len(ifs) : ifs[k].name = o.network_name[1]})
             ELSE 0

\* the value of ansible_host the latest projection set for entry i
AnsibleHostOf(i) ==
    LET j == CHOOSE j \in CallsOf(i) :
                 calls[j].op = "set_variable" /\ calls[j].args[2] = "ansible_host"
    IN  calls[j].args[3]

NamespaceGroups(namespace) ==
    {sanitize_group_name(NamespacePrefix \o namespace),
     sanitize_group_name(NamespacePrefix \o namespace \o VmisSuffix)}

\* C1: a VMI of the projected list whose status is absent, or whose
\* status.interfaces is absent or empty, gets no inventory call at all (no
\* host, no label group, no variable), whatever its labels are; a list of
\* such VMIs only leaves the hosts, their variables and the label groups of
\* the inventory as they were.
C1_NoInterfacesNoHost ==
    Projected =>
      /\ \A i \in 1..Len(LastList) :
           NoInterfaces(LastList[i]) => CallsOf(i) = {}
      /\ (\A i \in 1..Len(LastList) : NoInterfaces(LastList[i])) =>
           /\ hosts = hist.before.hosts
           /\ hostvars = hist.before.hostvars
           /\ groups \ hist.before.groups \subseteq
                 {sanitize_group_name(LastName)} \cup NamespaceGroups(LastNamespace)

\* C1 witness: a labelled VMI without interfaces was projected next to a VMI
\* that became a host.
C1_Witness ==
    /\ Projected
    /\ \E i, j \in 1..Len(LastList) :
         /\ NoInterfaces(LastList[i])
         /\ LastList[i].metadata.labels # Nil
         /\ CallsOf(j) # {}

\* C2 (as claimed): a VMI with interfaces whose selection finds no interface,
\* or whose selected interface has an absent or empty ipAddress (the empty
\* string included), gets no inventory call.
C2_NoAddressNoHost ==
    Projected =>
      \A i \in 1..Len(LastList) :
        ~NoInterfaces(LastList[i]) =>
          LET k   == SelectedIndex(LastList[i], LastOpts)
              ifs == LastList[i].status[1].interfaces[1]
          IN  (k = 0 \/ ifs[k].ipAddress \in {Nil, Some(<<>>)}) => CallsOf(i) = {}

\* C3: the interface is the first entry without a network name, else the
\* first entry of that name; a VMI whose selected entry reports no address is
\* skipped even when a later entry has one; and when the secondary DNS name
\* does not apply, ansible_host is the ipAddress of the selected entry.
C3_SelectedInterface ==
    /\ SelectInterface(<< Interface(eth0, Some(ip1)), Interface(eth1, Some(ip2)) >>,
                       Some(eth1)) = Some(Interface(eth1, Some(ip2)))
    /\ SelectInterface(<< Interface(eth0, Some(ip1)) >>, Nil)
          = Some(Interface(eth0, Some(ip1)))
    /\ Projected =>
         \A i \in 1..Len(LastList) :
           ~NoInterfaces(LastList[i]) =>
             LET k   == SelectedIndex(LastList[i], LastOpts)
                 ifs == LastList[i].status[1].interfaces[1]
             IN  /\ (k = 0 \/ ifs[k].ipAddress = Nil) => CallsOf(i) = {}
                 /\ (k # 0 /\ ifs[k].ipAddress # Nil) => CallsOf(i) # {}
                 /\ ( /\ CallsOf(i) # {}
                      /\ ~(LastOpts.kube_secondary_dns /\ LastOpts.network_name # Nil) )
                    => AnsibleHostOf(i) = ifs[k].ipAddress[1]

\* C3 witness: with a network name, a VMI became a host through an interface
\* that is not its first, and its address is that interface's.
C3_Witness ==
    /\ Projected
    /\ LastOpts.network_name # Nil
    /\ ~LastOpts.kube_secondary_dns
    /\ \E i \in 1..Len(LastList) :
         /\ CallsOf(i) # {}
         /\ SelectedIndex(LastList[i], LastOpts) > 1
         /\ AnsibleHostOf(i) = ip2

\* the secondary DNS name of the claim: the base domain is appended only
\* when it is not empty
SecondaryDnsName(vmi, o) ==
    o.network_name[1] \o Dot \o vmi.metadata.name \o Dot \o vmi.metadata.namespace
    \o <<".", "v", "m">>
    \o (IF o.base_domain \in {Nil, Some(<<>>)} THEN <<>> ELSE Dot \o o.base_domain[1])

\* C4 (as claimed): ansible_host of an included VMI is
\* {network_name}.{name}.{namespace}.vm exactly when kube_secondary_dns is
\* true and network_name is set, with .{base_domain} appended if and only if
\* base_domain is not empty; otherwise it is the selected ipAddress.
C4_AnsibleHost ==
    Projected =>
      \A i \in 1..Len(LastList) :
        CallsOf(i) # {} =>
          AnsibleHostOf(i) =
            IF LastOpts.kube_secondary_dns /\ LastOpts.network_name # Nil
            THEN SecondaryDnsName(LastList[i], LastOpts)
            ELSE LastList[i].status[1].interfaces[1][SelectedIndex(LastList[i], LastOpts)]
                   .ipAddress[1]

\* C5: after a projection whose fetch succeeded the inventory holds the group
\* of the connection, namespace_{namespace} as its child and
\* namespace_{namespace}_vmis as a child of that one, all sanitized, whether
\* or not a VMI of the list became a host.
C5_NamespaceGroups ==
    Projected =>
      LET group == sanitize_group_name(LastName)
          namespace_group == sanitize_group_name(NamespacePrefix \o LastNamespace)
          namespace_vmis_group ==
              sanitize_group_name(NamespacePrefix \o LastNamespace \o VmisSuffix)
      IN  /\ {group, namespace_group, namespace_vmis_group} \subseteq groups
          /\ HasEdge(children, group, namespace_group)
          /\ HasEdge(children, namespace_group, namespace_vmis_group)

\* C5 witness: a namespace was projected from a list that is not empty and
\* no VMI of it became a host.
C5_Witness ==
    /\ Projected
    /\ LastList # <<>>
    /\ \A i \in 1..Len(LastList) : CallsOf(i) = {}
    /\ hosts = {}
    /\ LastNamespace = ns1
    /\ <<"n","a","m","e","s","p","a","c","e","_","n","s","_","1","_","v","m","i","s">>
          \in groups

\* the host the latest projection added for entry i
HostOf(i) ==
    LET j == CHOOSE j \in CallsOf(i) : calls[j].op = "add_host"
    IN  calls[j].args[1]

LabelPairs(vmi) ==
    IF vmi.metadata.labels = Nil THEN <<>> ELSE vmi.metadata.labels[1].items

\* the group the claims name for a label: label_{key}_{value}, sanitized
GroupOfLabel(pair) ==
    sanitize_group_name(<<"l","a","b","e","l","_">> \o pair[1] \o <<"_">> \o pair[2].items)

label_app_x  == <<"l","a","b","e","l","_","a","p","p","_","x">>
label_tier_y == <<"l","a","b","e","l","_","t","i","e","r","_","y">>
label_a_b_c  == <<"l","a","b","e","l","_","a","_","b","_","c">>

\* the add_child calls the latest projection made for entry i with child h
AddChildCalls(i, g, h) ==
    {j \in CallsOf(i) : calls[j].op = "add_child" /\ calls[j].args = <<g, h>>}

\* C6: an included VMI is a child of the namespace-VMI group and of the group
\* label_{key}_{value} (sanitized) of each of its labels, in whatever order
\* the labels are listed, and it is added to each of these groups once, also
\* when two of its labels have the same group.
C6_LabelGroups ==
    Projected =>
      \A i \in 1..Len(LastList) :
        CallsOf(i) # {} =>
          LET vmi   == LastList[i]
              pairs == LabelPairs(vmi)
              vmis  == sanitize_group_name(NamespacePrefix \o LastNamespace \o VmisSuffix)
          IN  /\ HostOf(i) \in hosts
              /\ HasEdge(children, vmis, HostOf(i))
              /\ Cardinality(AddChildCalls(i, vmis, HostOf(i))) = 1
              /\ \A p \in 1..Len(pairs) :
                   /\ GroupOfLabel(pairs[p]) \in groups
                   /\ HasEdge(children, GroupOfLabel(pairs[p]), HostOf(i))
                   /\ Cardinality(AddChildCalls(i, GroupOfLabel(pairs[p]), HostOf(i))) = 1
              /\ vmi.metadata.labels \in {LabelsAppTier, LabelsTierApp} =>
                   /\ {label_app_x, label_tier_y} \subseteq groups
                   /\ HasEdge(children, label_app_x, HostOf(i))
                   /\ HasEdge(children, label_tier_y, HostOf(i))

\* C6 witness: a VMI with two labels of one group became a host and is a
\* child of that group.
C6_Witness ==
    /\ Projected
    /\ \E i \in 1..Len(LastList) :
         /\ CallsOf(i) # {}
         /\ LastList[i].metadata.labels = LabelsSameGroup
         /\ HasEdge(children, label_a_b_c, HostOf(i))

default_testvm == <<"d","e","f","a","u","l","t","-","t","e","s","t","v","m">>

\* C7: every group of the inventory is a sanitized name (word characters,
\* no leading digit), and every host is host_format rendered with the
\* namespace, name and uid of its VMI, not sanitized.
C7_SanitizedGroupsRawHosts ==
    /\ Format(DefaultHostFormat, default, testvm, <<"1">>) = default_testvm
    /\ \A g \in groups :
         /\ g = sanitize_group_name(g)
         /\ \A k \in 1..Len(g) : g[k] \in WordChars
         /\ g # <<>> => g[1] \notin Digits
    /\ \A h \in hosts :
         /\ h \in DOMAIN hist.writer
         /\ LET m  == hist.writer[h][1].metadata
                hf == hist.writer[h][2].host_format
            IN  /\ h = Format(hf[1], m.namespace, m.name, m.uid)
                /\ hf = Some(DefaultHostFormat) => h = m.namespace \o <<"-">> \o m.name
                /\ hf = Some(<<"{uid}">>) => h = m.uid
                /\ hf = Some(<<"{namespace}">>) => h = m.namespace

\* C7 witness: the connection c-1 is the group c_1, and the host
\* default-testvm keeps its dash.
C7_Witness ==
    /\ Projected
    /\ LastName = cluster1
    /\ <<"c","_","1">> \in groups
    /\ default_testvm \in hosts

\* the variables get_vmis_for_namespace derives from a VMI
VariablesOf(vmi, o) ==
    LET hv == HostVariables(vmi, o,
                  vmi.status[1].interfaces[1][SelectedIndex(vmi, o)])
    IN  [k \in {hv[j][1] : j \in 1..Len(hv)} |->
            hv[CHOOSE j \in 1..Len(hv) : hv[j][1] = k][2]]

\* C8: VMIs that render to one host identifier are one host, and every
\* variable of a host has the value derived from the VMI processed last
\* under its identifier.
C8_LaterVmiWins ==
    /\ hosts = DOMAIN hist.writer
    /\ \A h \in hosts :
         hostvars[h] = VariablesOf(hist.writer[h][1], hist.writer[h][2])

\* C8 witness: a host was written from two different VMIs.
C8_Witness ==
    \E h \in hist.overwritten :
        /\ h \in hosts
        /\ hostvars[h]["uid"] = hist.writer[h][1].metadata.uid

C10_OptionsNotEmpty ==
    (pc = "namespaces" /\ namespaces # <<>>) =>
      /\ opts.api_version \notin {Nil, Some(<<>>)}
      /\ opts.host_format \notin {Nil, Some(<<>>)}

\* fetch_objects was entered with the connections value read by setup.
Fetching ==
    /\ connections # Nil
    /\ pc # "cached"
    /\ error # Some(ClientMissing)

\* The configured connections value is something else than a list.
ConnectionsNotAList ==
    /\ connections # Nil
    /\ connections[1].kind \notin {"none", "empty_list", "list"}

\* C11 (as claimed): when the configured connections value is not a list,
\* or the current entry of the list is not a mapping, fetch_objects has
\* failed with the configuration error; it has taken neither the default
\* path nor processed the entry.
C11_ConfigurationError ==
    /\ (Fetching /\ ConnectionsNotAList) =>
         /\ pc = "failed"
         /\ error = Some(ExpectingList)
    /\ (connection # Nil /\ connection[1].kind # "dict") =>
         /\ pc = "failed"
         /\ error = Some(ExpectingDictionary)

\* A fetch raised DynamicApiError.
FetchErrors == {Some(ErrorFetchingNamespaceList), Some(ErrorFetchingVmiList)}

RECURSIVE str(_)
str(n) ==
    LET digit == <<"0","1","2","3","4","5","6","7","8","9">>[(n % 10) + 1]
    IN  IF n < 10 THEN <<digit>> ELSE str(n \div 10) \o <<digit>>

Quote == "\""

\* The first index >= from at which s holds ch, else 0.
Find(s, ch, from) ==
    LET I == {i \in from..Len(s) : s[i] = ch}
    IN  IF I = {} THEN 0 ELSE Min(I)

\* A JSON string literal starting at s[i]: its text and the index after it.
\* ok is FALSE when s[i] does not start a closed literal.
JsonString(s, i) ==
    LET j == IF i <= Len(s) /\ s[i] = Quote THEN Find(s, Quote, i + 1) ELSE 0
    IN  IF j = 0 THEN [ok |-> FALSE, text |-> <<>>, next |-> i]
        ELSE [ok |-> TRUE, text |-> SubSeq(s, i + 1, j - 1), next |-> j + 1]

\* A JSON number (digits only) starting at s[i].
JsonNumber(s, i) ==
    LET stop == {j \in i..Len(s) : s[j] \notin Digits}
        next == IF stop = {} THEN Len(s) + 1 ELSE Min(stop)
    IN  IF next = i THEN [ok |-> FALSE, text |-> <<>>, next |-> i]
        ELSE [ok |-> TRUE, text |-> SubSeq(s, i, next - 1), next |-> next]

\* A JSON value starting at s[i]: a string or a number.
JsonValue(s, i) ==
    LET t == JsonString(s, i)
        n == JsonNumber(s, i)
    IN  IF t.ok THEN [ok |-> TRUE, value |-> [type |-> "str", v |-> t.text], next |-> t.next]
        ELSE IF n.ok THEN [ok |-> TRUE, value |-> [type |-> "int", v |-> n.text], next |-> n.next]
        ELSE [ok |-> FALSE, value |-> [type |-> "none", v |-> <<>>], next |-> i]

\* The members of a JSON object from s[i] on, up to the closing brace that
\* ends s; d holds the members read so far (a later member of the same key
\* replaces the earlier one). Nil when s is not such an object.
RECURSIVE JsonMembers(_, _, _)
JsonMembers(s, i, d) ==
    LET k == JsonString(s, i)
        v == JsonValue(s, k.next + 1)
        e == (k.text :> v.value) @@ d
    IN  IF ~k.ok \/ k.next > Len(s) \/ s[k.next] # ":" \/ ~v.ok \/ v.next > Len(s)
        THEN Nil
        ELSE IF s[v.next] = "}" THEN (IF v.next = Len(s) THEN Some(e) ELSE Nil)
        ELSE IF s[v.next] = "," THEN JsonMembers(s, v.next + 1, e)
        ELSE Nil

\* json.loads(s), for JSON written without white space or escapes whose
\* values are strings, numbers or objects of these: the decoded value, or the
\* exception raised.
loads(s) ==
    LET t == JsonValue(s, 1)
    IN  IF t.ok /\ t.next = Len(s) + 1 THEN [type |-> t.value.type, v |-> t.value.v]
        ELSE IF s = <<"{", "}">> THEN [type |-> "dict", v |-> <<>>]
        ELSE IF Len(s) >= 2 /\ s[1] = "{" /\ JsonMembers(s, 2, <<>>) # Nil
             THEN [type |-> "dict", v |-> JsonMembers(s, 2, <<>>)[1]]
        ELSE [type |-> "raise", v |-> "JSONDecodeError"]

ContentType == "Content-Type"
applicationJson == "application/json"
textPlain == "text/plain"

\* bool(x) of a decoded JSON string or number
TruthyJson(x) ==
    IF x.type = "int" THEN x.v \notin {<<"0">>} ELSE x.v # <<>>

Returned(x) == [outcome |-> "return", value |-> x]
Raised(x) == [outcome |-> "raise", value |-> x]

ReasonFallback(e) ==
    str(e.status) \o <<" ","R","e","a","s","o","n",":"," ">> \o e.reason

messageKey == <<"m","e","s","s","a","g","e">>

\* format_dynamic_api_exc(exc): the value returned or the exception raised
format_dynamic_api_exc(e) ==
    IF e.body # Nil /\ e.body[1] # <<>>
    THEN IF /\ e.headers # Nil
            /\ ContentType \in DOMAIN e.headers[1]
            /\ e.headers[1][ContentType] = applicationJson
         THEN LET d == loads(e.body[1])
              IN  IF d.type = "raise" THEN Raised([type |-> "exception", v |-> <<d.v>>])
                  ELSE IF d.type # "dict"
                       THEN Raised([type |-> "exception", v |-> <<"AttributeError">>])
                  ELSE IF messageKey \in DOMAIN d.v /\ TruthyJson(d.v[messageKey])
                       THEN Returned(d.v[messageKey])
                  ELSE Returned([type |-> "str", v |-> e.body[1]])
         ELSE Returned([type |-> "str", v |-> e.body[1]])
    ELSE Returned([type |-> "str", v |-> ReasonFallback(e)])

\* Bodies of a DynamicApiError: none, empty, plain text, a Status object with
\* a message, with an empty message, without a message, a JSON string, and a
\* Status object cut short.
Unauthorized == <<"U","n","a","u","t","h","o","r","i","z","e","d">>
JsonText(t) == <<Quote>> \o t \o <<Quote>>
JsonMessage(t) == <<"{">> \o JsonText(messageKey) \o <<":">> \o JsonText(t)
JsonCode == JsonText(<<"c","o","d","e">>) \o <<":","4","0","3">>

Bodies ==
    { Nil, Some(<<>>), Some(Unauthorized),
      Some(JsonMessage(<<"d","e","n","i","e","d">>) \o <<"}">>),
      Some(JsonMessage(<<"d","e","n","i","e","d">>) \o <<",">> \o JsonCode \o <<"}">>),
      Some(JsonMessage(<<>>) \o <<",">> \o JsonCode \o <<"}">>),
      Some(<<"{">> \o JsonCode \o <<"}">>),
      Some(<<"{", "}">>),
      Some(JsonText(Unauthorized)),
      Some(JsonMessage(<<"d","e","n">>)) }

\* exc.headers: none, empty, or holding a Content-Type
Headers ==
    { Nil, Some(<<>>), Some(ContentType :> applicationJson),
      Some(ContentType :> textPlain) }

ApiExceptions ==
    [body : Bodies, headers : Headers, status : {403, 500},
     reason : {<<"F","o","r","b","i","d","d","e","n">>, <<>>}]

\* The plugin is not running.
PluginIdle ==
    /\ pc = "idle"
    /\ error = Nil
    /\ connections = Nil
    /\ connection = Nil
    /\ host_format = Nil
    /\ remaining = 0
    /\ name = <<>>
    /\ opts = GetVmiOptions(Nil, Nil, Nil, FALSE, Nil, Nil)
    /\ namespaces = <<>>
    /\ cluster = <<>>
    /\ groups = {} /\ hosts = {} /\ children = <<>> /\ hostvars = <<>>
    /\ calls = <<>>
    /\ hist = NoHistory

InitFormat ==
    /\ PluginIdle
    /\ ModuleIdle
    /\ exc \in {Some(e) : e \in ApiExceptions}
    /\ message = Nil

FormatDynamicApiExc ==
    /\ exc # Nil
    /\ message = Nil
    /\ message' = Some(format_dynamic_api_exc(exc[1]))
    /\ UNCHANGED <<exc, pluginVars, moduleVars>>

NextFormat == FormatDynamicApiExc

SpecFormat == InitFormat /\ [][NextFormat]_vars

\* The message of a body that is a JSON object with a non-empty message
\* under Content-Type application/json, else Nil.
JsonMessageOf(e) ==
    IF /\ e.body # Nil
       /\ e.headers # Nil
       /\ ContentType \in DOMAIN e.headers[1]
       /\ e.headers[1][ContentType] = applicationJson
       /\ loads(e.body[1]).type = "dict"
       /\ messageKey \in DOMAIN loads(e.body[1]).v
       /\ TruthyJson(loads(e.body[1]).v[messageKey])
    THEN Some(loads(e.body[1]).v[messageKey])
    ELSE Nil

\* C13 (as claimed): format_dynamic_api_exc returns the message of a JSON
\* body that carries a non-empty message, and in every other case the
\* generic "{status} Reason: {reason}".
C13_MessageOrFallback ==
    message # Nil =>
      message[1] =
        IF JsonMessageOf(exc[1]) # Nil
        THEN Returned(JsonMessageOf(exc[1])[1])
        ELSE Returned([type |-> "str", v |-> ReasonFallback(exc[1])])

\* ------------------------------------------- kubevirt_vm: the manifest

\* A Jinja2 test ({% if x %}) of a parameter: set and not empty.
Set(opt) == opt # Nil /\ opt[1] # <<>>

\* A mapping with the key k when cond holds, else the empty mapping.
IfKey(cond, k, v) == IF cond THEN k :> v ELSE <<>>

staging == <<"s","t","a","g","i","n","g">>
loadbalancer == <<"l","o","a","d","b","a","l","a","n","c","e","r">>
masquerade == <<"m","a","s","q","u","e","r","a","d","e">>

\* The labels of the unit test (lines 99-102 of the test).
TestLabels == ("environment" :> staging) @@ ("service" :> loadbalancer)

TestInterfaces == <<("name" :> default) @@ ("masquerade" :> <<>>)>>
TestNetworks == <<("name" :> default) @@ ("pod" :> <<>>)>>
TestVolumes == <<("name" :> <<"d","i","s","k">>) @@ ("emptyDisk" :> <<>>)>>

\* The keys of arg_spec() the model follows (lines 405-425).
ArgSpecKeys ==
    {"state", "api_version", "name", "generate_name", "namespace",
     "annotations", "labels", "instancetype", "preference",
     "infer_from_volume", "interfaces", "networks", "volumes", "wait"}

\* The arguments a task passes to the module: a key that is not given is
\* Nil. running is a key arg_spec() does not define.
ModuleArgs ==
    { [state |-> st, api_version |-> Nil, name |-> n, generate_name |-> g,
       namespace |-> ns, annotations |-> x.annotations, labels |-> l,
       instancetype |-> x.instancetype, preference |-> x.preference,
       infer_from_volume |-> x.infer_from_volume,
       interfaces |-> net[1], networks |-> net[2], volumes |-> x.volumes,
       wait |-> w, running |-> r] :
      st \in {Nil, Some("present"), Some("absent")},
      n \in {Nil, Some(testvm)}, g \in {Nil, Some(testvm)},
      ns \in {Nil, Some(default)},
      l \in {Nil, Some(<<>>), Some(TestLabels)},
      net \in {<<Nil, Nil>>, <<Some(TestInterfaces), Some(TestNetworks)>>,
               <<Some(TestInterfaces), Nil>>},
      w \in {Nil, Some(TRUE)}, r \in {Nil, Some(FALSE)},
      x \in { [annotations |-> Nil, instancetype |-> Nil, preference |-> Nil,
               infer_from_volume |-> Nil, volumes |-> Nil],
              [annotations |-> Some("note" :> staging),
               instancetype |-> Some(<<"u","1">>), preference |-> Nil,
               infer_from_volume |-> Some([instancetype |-> Nil,
                                           preference |-> Some(<<"d","i","s","k">>)]),
               volumes |-> Some(TestVolumes)] } }

\* Faulty variant of ValidArgs: name and generate_name may both be given.
ValidArgsAnyName(a) ==
    /\ \A k \in DOMAIN a : a[k] # Nil => k \in ArgSpecKeys
    /\ a.namespace # Nil
    /\ (a.name # Nil \/ a.generate_name # Nil)
    /\ (a.interfaces # Nil <=> a.networks # Nil)

\* AnsibleModule's validation of the arguments against arg_spec() and the
\* rules main passes (lines 436-447).
ValidArgs(a) ==
    /\ \A k \in DOMAIN a : a[k] # Nil => k \in ArgSpecKeys
    /\ a.namespace # Nil
    /\ ~(a.name # Nil /\ a.generate_name # Nil)
    /\ (a.name # Nil \/ a.generate_name # Nil)
    /\ (a.interfaces # Nil <=> a.networks # Nil)

\* module.params: the arguments with the defaults of arg_spec().
WithDefaults(a) ==
    [k \in ArgSpecKeys |->
        IF k = "state" THEN Get(a.state, Some("present"))
        ELSE IF k = "api_version" THEN Get(a.api_version, Some(KubevirtV1))
        ELSE IF k = "wait" THEN Get(a.wait, Some(FALSE))
        ELSE a[k]]

\* infer_from_volume.<key> in the template: undefined when infer_from_volume
\* is not given.
Infer(p, k) == IF p.infer_from_volume = Nil THEN Nil ELSE p.infer_from_volume[1][k]

\* spec.instancetype / spec.preference (lines 239-256)
Matcher(p, k) ==
    IfKey(Set(p[k]) \/ Set(Infer(p, k)), k,
          IfKey(Set(p[k]), "name", p[k][1])
          @@ IfKey(Set(Infer(p, k)), "inferFromVolume", Infer(p, k)[1]))

\* render_template(params), read as YAML: VM_TEMPLATE (lines 219-287)
render_template(p) ==
    LET meta ==
            IfKey(Set(p.annotations), "annotations", p.annotations[1])
            @@ IfKey(Set(p.labels), "labels", p.labels[1])
        metadata ==
            IfKey(Set(p.name), "name", p.name[1])
            @@ IfKey(Set(p.generate_name), "generateName", p.generate_name[1])
            @@ ("namespace" :> p.namespace[1])
            @@ meta
        devices == IfKey(Set(p.interfaces), "interfaces", p.interfaces[1])
        tspec ==
            ("domain" :> ("devices" :> devices))
            @@ IfKey(Set(p.networks), "networks", p.networks[1])
            @@ IfKey(Set(p.volumes), "volumes", p.volumes[1])
        template ==
            IfKey(Set(p.annotations) \/ Set(p.labels), "metadata", meta)
            @@ ("spec" :> tspec)
        spec ==
            Matcher(p, "instancetype") @@ Matcher(p, "preference")
            @@ ("running" :> TRUE) @@ ("template" :> template)
    IN  ("apiVersion" :> p.api_version[1]) @@ ("kind" :> "VirtualMachine")
        @@ ("metadata" :> metadata) @@ ("spec" :> spec)

\* ------------------------------------------ kubevirt_vm: perform_action

\* dict.get(k) of a dict held as a function
GetKey(d, k) == IF k \in DOMAIN d THEN Some(d[k]) ELSE Nil

\* d[k] = v of a dict held as a function
SetKey(d, k, v) == (k :> v) @@ d

\* A call on svc, with svc.client.dry_run as it is during the call and, for
\* svc.apply, the object returned (Nil when it raised).
SvcCall(op) == [op |-> op, dry_run |-> dry_run, returned |-> Nil]

AlreadyExists == "VirtualMachine already exists"
TimedOut == "Timed out waiting on VirtualMachine"

\* An exception with its message and the result payload it carries
\* (Nil when it has none).
Exception(type, msg, payload) == [type |-> type, msg |-> msg, result |-> payload]

\* A field the API server sets on its own (a default or a mutating admitter).
Defaulted == "dataVolumeTemplates" :> <<>>

\* The objects svc.retrieve can find for a definition: of the same spec, of
\* another spec, and of the same spec with a defaulted field.
ExistingObjects(d) ==
    { [metadata |-> d.metadata @@ ("uid" :> "1"), spec |-> sp,
       status |-> [ready |-> rd]] :
      sp \in {d.spec, SetKey(d.spec, "running", FALSE), d.spec @@ Defaulted},
      rd \in BOOLEAN }

\* The attributes specified differ from those of the existing object.
Differs(old, d) ==
    \E k \in DOMAIN d.spec : k \notin DOMAIN old.spec \/ old.spec[k] # d.spec[k]

\* What the dry-run svc.apply(resource, definition) can return: the
\* existing object with the fields of the definition set, as it is or with
\* a defaulted field added.
Applied(old, d) ==
    { [metadata |-> d.metadata @@ old.metadata, spec |-> sp, status |-> old.status] :
      sp \in {d.spec @@ old.spec, d.spec @@ old.spec @@ Defaulted} }

\* del obj["metadata"]; del obj["status"] (lines 367-370)
Idempotent(obj) == [spec |-> obj.spec]

\* diff_objects(old, new) of kubernetes.core: whether the objects match, and
\* their difference.
diff_objects(old, new) ==
    IF old = new THEN <<TRUE, <<>> >>
    ELSE <<FALSE, [before |-> old, after |-> new]>>

\* main up to runner.run_module (lines 431-456)
Main ==
    /\ step = "main"
    /\ \E a \in ModuleArgs, cm \in BOOLEAN :
         /\ check_mode' = cm
         /\ dry_run' = cm
         /\ \/ \* AnsibleK8SModule(...) fails: fail_json
               /\ ~ValidArgs(a)
               /\ params' = Some(a)
               /\ step' = "fail_json"
               /\ UNCHANGED definition
            \/ /\ ValidArgs(a)
               /\ params' = Some(WithDefaults(a))
               /\ definition' = Some(render_template(WithDefaults(a)))
               /\ step' = "perform_action"
    /\ UNCHANGED <<existing, svc_calls, result, instance, raised>>
    /\ UNCHANGED <<pluginVars, formatVars>>

\* perform_action up to svc.retrieve (lines 297-308)
Retrieve ==
    /\ step = "perform_action"
    /\ result' = ("changed" :> FALSE)
    /\ instance' = <<>>
    /\ \/ \* svc.find_resource(..., fail=True) raises
          /\ svc_calls' = svc_calls \o <<SvcCall("find_resource")>>
          /\ raised' = Some(Exception("CoreException", "Failed to find resource", Nil))
          /\ step' = "raised"
          /\ UNCHANGED <<definition, existing>>
       \/ /\ svc_calls' = svc_calls \o <<SvcCall("find_resource"), SvcCall("retrieve")>>
          /\ definition' = Some(SetKey(SetKey(definition[1], "kind", "VirtualMachine"),
                                       "apiVersion", params[1].api_version[1]))
          /\ existing' \in {Nil} \cup
                (IF "name" \in DOMAIN definition[1].metadata
                 THEN {Some(obj) : obj \in ExistingObjects(definition[1])}
                 ELSE {})
          /\ step' = "retrieved"
          /\ UNCHANGED raised
    /\ UNCHANGED <<params, check_mode, dry_run>>
    /\ UNCHANGED <<pluginVars, formatVars>>

\* Faulty variant of Deleted: changed is set whether or not an object existed.
DeletedAlways(res, ex) ==
    SetKey(SetKey(res, "method", "delete"), "changed", TRUE)

\* The result after svc.delete (lines 313-315)
Deleted(res, ex) ==
    IF ex # Nil THEN SetKey(SetKey(res, "method", "delete"), "changed", TRUE)
    ELSE SetKey(res, "method", "delete")

\* The object svc.create returns: the definition as stored, under the name
\* given or generated.
CreatedInstance(d) ==
    [metadata |-> d.metadata @@ ("name" :> testvm) @@ ("uid" :> "1"),
     spec |-> d.spec, status |-> [ready |-> FALSE]]

\* The result after svc.create (lines 320-322)
Created(res, d) ==
    SetKey(SetKey(SetKey(res, "result", CreatedInstance(d)), "method", "create"),
           "changed", TRUE)

NoMeaningfulDiff == "No meaningful diff was generated, but the API may not be idempotent"

\* Faulty variant of Compared: the objects are taken to match.
ComparedAsMatch(res, old, new) == [result |-> res, raised |-> Nil]

\* Faulty variant of Compared: the difference is not stored in the result.
ComparedWithoutDiff(res, old, new) ==
    LET d == diff_objects(Idempotent(old), Idempotent(new))
    IN  [result |-> res,
         raised |-> IF d[1] THEN Nil
                    ELSE Some(Exception("CoreException", AlreadyExists, Some(res)))]

\* compare_existing after the dry-run apply returned new (lines 366-385):
\* the result, and the exception raised
Compared(res, old, new) ==
    LET d      == diff_objects(Idempotent(old), Idempotent(new))
        match  == d[1]
        diffs  == d[2]
        warned == IF match /\ diffs # <<>>
                  THEN SetKey(res, "warnings", <<NoMeaningfulDiff>>) ELSE res
        r      == IF diffs # <<>> THEN SetKey(warned, "diff", diffs) ELSE warned
    IN  [result |-> r,
         raised |-> IF match THEN Nil
                    ELSE Some(Exception("CoreException", AlreadyExists, Some(r)))]

\* The branch of perform_action on state and existing (lines 310-325)
Act ==
    /\ step = "retrieved"
    /\ \/ \* lines 312-315
          /\ params[1].state[1] = "absent"
          /\ svc_calls' = svc_calls \o <<SvcCall("delete")>>
          /\ instance' = IF existing = Nil THEN <<>> ELSE existing[1]
          /\ result' = Deleted(result, existing)
          /\ step' = "acted"
          /\ UNCHANGED <<dry_run, raised>>
       \/ \* lines 319-322
          /\ params[1].state[1] # "absent"
          /\ existing = Nil
          /\ svc_calls' = svc_calls \o <<SvcCall("create")>>
          /\ instance' = CreatedInstance(definition[1])
          /\ result' = Created(result, definition[1])
          /\ step' = "acted"
          /\ UNCHANGED <<dry_run, raised>>
       \/ \* svc.delete or svc.create raises
          /\ params[1].state[1] = "absent" \/ existing = Nil
          /\ svc_calls' = svc_calls \o
                <<SvcCall(IF params[1].state[1] = "absent" THEN "delete" ELSE "create")>>
          /\ raised' = Some(Exception("CoreException", "Failed", Nil))
          /\ step' = "raised"
          /\ UNCHANGED <<dry_run, result, instance>>
       \/ \* compare_existing, svc.apply raises (lines 350-363)
          /\ params[1].state[1] # "absent"
          /\ existing # Nil
          /\ dry_run' = TRUE
          /\ svc_calls' = svc_calls \o
                <<[op |-> "apply", dry_run |-> TRUE, returned |-> Nil]>>
          /\ raised' = Some(Exception("CoreException", AlreadyExists, Some(result)))
          /\ step' = "raised"
          /\ UNCHANGED <<result, instance>>
       \/ \* compare_existing, svc.apply returns (lines 350-385)
          /\ params[1].state[1] # "absent"
          /\ existing # Nil
          /\ \E new \in Applied(existing[1], definition[1]) :
               LET c == Compared(result, existing[1], new)
               IN  /\ svc_calls' = svc_calls \o
                         <<[op |-> "apply", dry_run |-> TRUE, returned |-> Some(new)]>>
                   /\ dry_run' = dry_run
                   /\ result' = c.result
                   /\ raised' = c.raised
                   /\ step' = IF c.raised = Nil THEN "acted" ELSE "raised"
                   /\ UNCHANGED instance
    /\ UNCHANGED <<params, check_mode, definition, existing>>
    /\ UNCHANGED <<pluginVars, formatVars>>

\* Faulty variant of ShouldWait: check mode is ignored.
ShouldWaitInCheckMode(res, p, cm) ==
    /\ GetKey(res, "method") \in {Some("delete"), Some("create")}
    /\ p.wait[1]

\* Lines 330-332: whether perform_action waits
ShouldWait(res, p, cm) ==
    /\ GetKey(res, "method") \in {Some("delete"), Some("create")}
    /\ p.wait[1]
    /\ ~cm

\* The rest of perform_action (lines 327-342)
Wait ==
    /\ step = "acted"
    /\ \/ /\ ~ShouldWait(result, params[1], check_mode)
          /\ step' = "returned"
          /\ UNCHANGED <<svc_calls, result, instance, raised>>
       \/ /\ ShouldWait(result, params[1], check_mode)
          /\ svc_calls' = svc_calls \o <<SvcCall("wait")>>
          /\ \E success \in BOOLEAN, duration \in {1, 120} :
               /\ result' = SetKey(result, "duration", duration)
               /\ instance' = CreatedInstance(definition[1])
               /\ IF success
                  THEN step' = "returned" /\ UNCHANGED raised
                  ELSE /\ step' = "raised"
                       /\ raised' = Some(Exception("ResourceTimeout", TimedOut,
                                                   Some(SetKey(result, "duration", duration))))
    /\ UNCHANGED <<params, check_mode, definition, existing, dry_run>>
    /\ UNCHANGED <<pluginVars, formatVars>>

\* runner.run_module returns or main fails from the exception (lines 457-460)
Exit ==
    /\ step \in {"returned", "raised"}
    /\ step' = IF step = "returned" THEN "exit_json" ELSE "fail_from_exception"
    /\ UNCHANGED <<params, check_mode, definition, existing, dry_run, svc_calls,
                   result, instance, raised>>
    /\ UNCHANGED <<pluginVars, formatVars>>

InitModule ==
    /\ PluginIdle
    /\ exc = Nil /\ message = Nil
    /\ step = "main"
    /\ params = Nil
    /\ check_mode = FALSE
    /\ definition = Nil
    /\ existing = Nil
    /\ dry_run = FALSE
    /\ svc_calls = <<>>
    /\ result = <<>>
    /\ instance = <<>>
    /\ raised = Nil

NextModule == Main \/ Retrieve \/ Act \/ Wait \/ Exit

SpecModule == InitModule /\ [][NextModule]_vars

\* ------------------------------------------------- kubevirt_vm: claims

\* FIXTURE1 of the unit test: the definition test_create expects
\* perform_action to be called with.
FIXTURE1 ==
    [apiVersion |-> KubevirtV1, kind |-> "VirtualMachine",
     metadata |-> [name |-> testvm, namespace |-> default, labels |-> TestLabels],
     spec |-> [running |-> TRUE,
               template |-> [metadata |-> [labels |-> TestLabels],
                             spec |-> [domain |-> [devices |-> <<>>],
                                       terminationGracePeriodSeconds |-> 180]]]]

\* The arguments of test_create, as module.params.
TestCreateParams(p) ==
    /\ p.name = Some(testvm) /\ p.namespace = Some(default)
    /\ p.state = Some("present") /\ p.labels = Some(TestLabels)
    /\ \A k \in ArgSpecKeys \ {"name", "namespace", "state", "labels", "api_version", "wait"} :
         p[k] = Nil

\* C14 (as claimed): the manifest main hands to perform_action has
\* spec.running as the running parameter (true when not given), holds
\* spec.template.spec.terminationGracePeriodSeconds, has empty devices when
\* no interfaces are given, carries the labels in metadata and in
\* spec.template.metadata, and is FIXTURE1 for the arguments of test_create.
C14_Manifest ==
    step = "perform_action" =>
      LET d == definition[1]
          p == params[1]
      IN  /\ d.spec.running = TRUE
          /\ "terminationGracePeriodSeconds" \in DOMAIN d.spec.template.spec
          /\ ~Set(p.interfaces) => d.spec.template.spec.domain.devices = <<>>
          /\ Set(p.labels) =>
               /\ d.metadata.labels = p.labels[1]
               /\ d.spec.template.metadata.labels = p.labels[1]
          /\ TestCreateParams(p) => d = FIXTURE1

\* The arguments fail the validation the claim names.
MissingOrInconsistent(a) ==
    \/ a.namespace = Nil
    \/ a.name = Nil /\ a.generate_name = Nil
    \/ a.name # Nil /\ a.generate_name # Nil

\* C15: when namespace is absent, or name and generate_name are both absent
\* or both given, the module has failed with fail_json, and a failed module
\* has rendered no manifest and made no call; a module that got further has
\* exactly one of name and generate_name.
C15_RequiredArguments ==
    params # Nil =>
      /\ MissingOrInconsistent(params[1]) => step = "fail_json"
      /\ step = "fail_json" => definition = Nil /\ svc_calls = <<>> /\ result = <<>>
      /\ step # "fail_json" =>
           (params[1].name # Nil) # (params[1].generate_name # Nil)

\* C15: the module failed on name and generate_name both given, everything
\* else being valid.
C15_Witness ==
    /\ step = "fail_json"
    /\ params[1].namespace # Nil
    /\ params[1].name # Nil /\ params[1].generate_name # Nil
    /\ params[1].running = Nil
    /\ (params[1].interfaces # Nil <=> params[1].networks # Nil)

\* svc_calls holds a call of op.
Called(op) == \E i \in 1..Len(svc_calls) : svc_calls[i].op = op

\* The branch of perform_action on state and existing is over.
ActOver ==
    /\ Called("retrieve")
    /\ step \in {"acted", "returned", "raised", "exit_json", "fail_from_exception"}

Returns == step \in {"returned", "exit_json"}

RaisedAlreadyExists ==
    /\ raised # Nil
    /\ raised[1].type = "CoreException"
    /\ raised[1].msg = AlreadyExists

\* C16: with state=present, once perform_action is past its branch, create
\* was called exactly when no object existed; when one existed neither
\* create nor delete was called, the error 'VirtualMachine already exists'
\* was raised if the specified attributes differ from the object's, and a
\* return reports no change and happens only when they do not differ.
C16_PresentCreatesOrCompares ==
    (ActOver /\ params[1].state[1] = "present") =>
      /\ Called("create") <=> existing = Nil
      /\ Cardinality({i \in 1..Len(svc_calls) : svc_calls[i].op = "create"}) <= 1
      /\ existing # Nil =>
           /\ ~Called("create") /\ ~Called("delete")
           /\ Differs(existing[1], definition[1]) => RaisedAlreadyExists
           /\ Returns =>
                /\ ~Differs(existing[1], definition[1])
                /\ result.changed = FALSE

\* C16: an object of another spec existed and the error was raised.
C16_Witness ==
    /\ ActOver /\ params[1].state[1] = "present"
    /\ existing # Nil
    /\ Differs(existing[1], definition[1])
    /\ RaisedAlreadyExists
    /\ Called("apply") /\ ~Called("create")

\* C17: a result perform_action returns has changed exactly when it created
\* an object (state=present, none existed) or deleted one (state=absent, one
\* existed); its method is "delete" under state=absent, and "create" exactly
\* when create was called.
C17_Changed ==
    Returns =>
      LET absent == params[1].state[1] = "absent"
      IN  /\ result.changed = (IF absent THEN existing # Nil ELSE existing = Nil)
          /\ result.changed => Called(IF absent THEN "delete" ELSE "create")
          /\ absent => GetKey(result, "method") = Some("delete")
          /\ GetKey(result, "method") = Some("create") <=> Called("create")

\* C17: state=absent with no object returns method "delete", unchanged.
C17_Witness ==
    /\ Returns
    /\ params[1].state[1] = "absent"
    /\ existing = Nil
    /\ result.changed = FALSE
    /\ GetKey(result, "method") = Some("delete")

\* The dry-run apply returned an object that is not the existing one, so
\* that diff_objects computed a difference.
DiffComputed ==
    \E i \in 1..Len(svc_calls) :
      /\ svc_calls[i].op = "apply"
      /\ svc_calls[i].returned # Nil
      /\ Idempotent(svc_calls[i].returned[1]) # Idempotent(existing[1])

RaisedTimedOut ==
    /\ raised # Nil
    /\ raised[1].type = "ResourceTimeout"
    /\ raised[1].msg = TimedOut

\* C18: 'VirtualMachine already exists' and 'Timed out waiting on
\* VirtualMachine' are raised as different errors, each ends the module in
\* failure, and each carries the result as it is when raised: the first
\* with the diff whenever one was computed, the second with method, changed
\* and duration.
C18_ErrorsCarryResult ==
    /\ raised # Nil => step \in {"raised", "fail_from_exception"}
    /\ ~(RaisedAlreadyExists /\ RaisedTimedOut)
    /\ RaisedAlreadyExists =>
         /\ Called("apply") /\ ~Called("wait")
         /\ raised[1].result = Some(result)
         /\ result.changed = FALSE
         /\ DiffComputed <=> "diff" \in DOMAIN result
         /\ DiffComputed =>
              result.diff = [before |-> Idempotent(existing[1]),
                             after |-> Idempotent(svc_calls[Len(svc_calls)].returned[1])]
    /\ RaisedTimedOut =>
         /\ svc_calls[Len(svc_calls)].op = "wait"
         /\ raised[1].result = Some(result)
         /\ {"method", "changed", "duration"} \subseteq DOMAIN result

\* C18: the already-exists error was raised with a diff in its payload.
C18_Witness ==
    /\ RaisedAlreadyExists
    /\ DiffComputed
    /\ "diff" \in DOMAIN raised[1].result[1]

\* The positions of svc_calls that hold a call of svc.wait.
Waits == {i \in 1..Len(svc_calls) : svc_calls[i].op = "wait"}

\* C19: svc.wait is called at most once, right after the create or delete
\* call, only with the wait parameter true and outside check mode; it is
\* not called when an existing object is compared under state=present, and
\* ResourceTimeout is raised only with svc.wait as the last call.
C19_WaitAfterAct ==
    /\ Cardinality(Waits) <= 1
    /\ \A i \in Waits :
         /\ i > 1
         /\ svc_calls[i - 1].op \in {"create", "delete"}
         /\ \A j \in 1..Len(svc_calls) : svc_calls[j].op \in {"create", "delete"} => j < i
         /\ params[1].wait[1]
         /\ ~check_mode
    /\ Called("apply") => Waits = {}
    /\ (raised # Nil /\ raised[1].type = "ResourceTimeout") =>
         /\ Waits # {}
         /\ svc_calls[Len(svc_calls)].op = "wait"

\* C19: a wait after a delete timed out.
C19_Witness ==
    /\ RaisedTimedOut
    /\ Waits # {}
    /\ Called("delete")

\* C20 (as claimed): once compare_existing has made its dry-run apply, in
\* every state that follows svc.client.dry_run is what it was before the
\* call, whether compare_existing returned or raised.
C20_DryRunRestored ==
    \A i \in 1..Len(svc_calls) :
      svc_calls[i].op = "apply" => dry_run = svc_calls[i - 1].dry_run

====
